---------------------------- MODULE Spec2Model ----------------------------
(***************************************************************************)
(* A model of pyBackup.2.0.py: the logging set-up, the console toggle, the *)
(* driver loop over BACKUP_LOCATIONS and rclone_sync with its child        *)
(* process, the two pipes the child writes to and the parent drains, and   *)
(* the wall clock read by time.time().                                     *)
(***************************************************************************)
EXTENDS Integers, Sequences, FiniteSets, TLC

VARIABLES
    pairs,          \* BACKUP_LOCATIONS: the configured sources, in dict order
    logWritable,    \* environment: can LOG_FILE be opened for appending
    CONSOLE_OUTPUT, \* the configured console switch (line 42)
    pc,             \* position of the (single) Python thread
    handlers,       \* logger.handlers, a list
    fileOpen,       \* the RotatingFileHandler's stream is open (delay=True)
    log,            \* every record handed to the logger, with its deliveries
    ARGS,           \* the shared argument list (lines 17-23), mutated in place
    idx,            \* pairs already taken from the iterator of line 150
    calls,          \* history: the calls of rclone_sync
    outcomes,       \* history: how each finished call of rclone_sync ended
    child,          \* the child process of the current rclone_sync call
    outPipe,        \* lines in the child's stdout pipe
    errPipe,        \* lines in the child's stderr pipe
    budget,         \* lines the children of this run may still write
    orphans,        \* children left running by a call that has returned
    start_time,     \* main()'s start_time
    toggles,        \* extra console_output calls still allowed
    lastToggle      \* argument of the last console_output call

vars == <<pairs, logWritable, CONSOLE_OUTPUT, pc, handlers, fileOpen, log,
          ARGS, idx, calls, outcomes, child, outPipe, errPipe, budget,
          orphans, start_time, toggles, lastToggle>>

---------------------------------------------------------------------------
(* Bounds of the model *)

\* lines the children of one run write, over both streams
MaxLines == 2
\* capacity of an OS pipe, in lines
PipeCap == 1
\* the wall clock at line 155 is within MaxClock seconds of its reading at line 149
MaxClock == 1
\* console_output calls made beyond the one of line 159
MaxToggles == 2

---------------------------------------------------------------------------
(* Configuration (lines 7-46) *)

HOME_DIR == "/home/siskourso/"

Sources == {"/home/siskourso/Downloads/", "/home/siskourso/Working/", HOME_DIR}

Destination(source) ==
    CASE source = "/home/siskourso/Downloads/" -> "gdrive:/Backups/-Orion-/Downloads/"
      [] source = "/home/siskourso/Working/"   -> "gdrive:/Backups/-Orion-/Working/"
      [] source = HOME_DIR                     -> "gdrive:/Backups/-Orion-/Home/"

BaseArgs == <<"--transfers=10", "--progress", "--verbose", "--exclude=*/*.log",
              "--drive-chunk-size=64M">>

HOME_ARGS == <<"--exclude=.*/", "--exclude=.*", "--exclude=*/*.log",
               "--exclude=Downloads/", "--exclude=Working/",
               "--exclude=Templates/", "--exclude=Public/", "--exclude=go/",
               "--exclude=Desktop/", "--exclude=gPodder/", "--exclude=snap/",
               "--exclude=Documents/test.pcapng">>

\* a dict has distinct keys: every ordered selection of distinct sources
Configs ==
    {s \in UNION {[1..n -> Sources] : n \in 0..Cardinality(Sources)} :
        \A i, j \in DOMAIN s : i # j => s[i] # s[j]}

---------------------------------------------------------------------------
(* The environment: clock, child output, exceptions *)

\* time.time() in whole seconds, counted from the reading of line 149; it is
\* the system's wall clock, which can be set back while the program runs
Clock == (0 - MaxClock)..MaxClock

GoodLine == "  Transferred: 1 / 1, 100%\n"
BadLine  == "\\xff\\xfe\n"
Lines    == {GoodLine, BadLine}

\* text=True decodes with errors="strict": BadLine is not valid in the locale encoding
Decodable(line) == line # BadLine

\* str.strip()
Strip(line) ==
    CASE line = GoodLine -> "Transferred: 1 / 1, 100%"
      [] OTHER           -> line

ExitCodes == {0, 1}

LaunchErrors == {"[Errno 2] No such file or directory: 'rclone'",
                 "[Errno 13] Permission denied: 'rclone'"}

DecodeError == "'utf-8' codec can't decode byte 0xff in position 0: invalid start byte"

\* how an f-string renders None
None == <<"None">>

NoChild == [state |-> "none", want |-> "idle", rc |-> 0]

---------------------------------------------------------------------------
(* logging *)

\* Handler.handle -> emit: the console handler writes to sys.stderr; the
\* rotating file handler opens the file on its first emit (delay=True) and,
\* when that raises, Handler.handleError swallows the exception.
HandlerEmits(h) == h = "console" \/ logWritable

DeliveredWith(hs) == SelectSeq(hs, HandlerEmits)

Msg(level, kind, src, dst, detail, num) ==
    [level |-> level, kind |-> kind, src |-> src, dst |-> dst,
     detail |-> detail, num |-> num]

Stamp(m, hs, call) ==
    [level |-> m.level, kind |-> m.kind, src |-> m.src, dst |-> m.dst,
     detail |-> m.detail, num |-> m.num, to |-> DeliveredWith(hs), call |-> call]

RECURSIVE StampAll(_, _, _)
StampAll(ms, hs, call) ==
    IF ms = <<>> THEN <<>>
    ELSE <<Stamp(Head(ms), hs, call)>> \o StampAll(Tail(ms), hs, call)

\* Logger.callHandlers over the handler list hs, for the messages ms in order
LogWith(ms, hs, call) ==
    /\ log' = log \o StampAll(ms, hs, call)
    /\ fileOpen' = (fileOpen \/ (ms # <<>> /\ logWritable /\ \E i \in DOMAIN hs : hs[i] = "file"))

Log(ms, call) == LogWith(ms, handlers, call)

\* mutant of addHandler: the handler is appended without the membership test
addHandler_NoMembershipTest(hs, h) == Append(hs, h)

\* Logger.addHandler: "if not (hdlr in self.handlers): self.handlers.append(hdlr)"
addHandler(hs, h) ==
    IF \E i \in DOMAIN hs : hs[i] = h THEN hs ELSE Append(hs, h)

\* Logger.removeHandler: "if hdlr in self.handlers: self.handlers.remove(hdlr)"
removeHandler(hs, h) ==
    LET first == IF \E i \in DOMAIN hs : hs[i] = h
                 THEN CHOOSE i \in DOMAIN hs : hs[i] = h /\ \A j \in 1..(i-1) : hs[j] # h
                 ELSE 0
    IN IF first = 0 THEN hs
       ELSE SubSeq(hs, 1, first - 1) \o SubSeq(hs, first + 1, Len(hs))

---------------------------------------------------------------------------
(* Module level: lines 81 and 159 *)

Init ==
    /\ pairs \in Configs
    /\ logWritable \in BOOLEAN
    /\ CONSOLE_OUTPUT \in BOOLEAN
    /\ pc = "setup"
    /\ handlers = <<>>
    /\ fileOpen = FALSE
    /\ log = <<>>
    /\ ARGS = BaseArgs
    /\ idx = 0
    /\ calls = <<>>
    /\ outcomes = <<>>
    /\ child = NoChild
    /\ outPipe = <<>>
    /\ errPipe = <<>>
    /\ budget = MaxLines
    /\ orphans = 0
    /\ start_time = 0
    /\ toggles = 0
    /\ lastToggle = "unset"

\* setup_logging(): the file handler is built with delay=True, so nothing is
\* opened here and the call returns whether or not LOG_FILE is writable
setup_logging ==
    /\ pc = "setup"
    /\ handlers' = addHandler(addHandler(handlers, "file"), "console")
    /\ pc' = "console"
    /\ UNCHANGED <<pairs, logWritable, CONSOLE_OUTPUT, fileOpen, log, ARGS, idx,
                   calls, outcomes, child, outPipe, errPipe, budget, orphans,
                   start_time, toggles, lastToggle>>

\* console_output(enabled)
console_output(enabled) ==
    /\ IF enabled
       THEN /\ handlers' = addHandler(handlers, "console")
            /\ LogWith(<<Msg("INFO", "Console logging enabled", "", "", <<>>, 0)>>,
                       handlers', 0)
       ELSE /\ handlers' = removeHandler(handlers, "console")
            /\ LogWith(<<Msg("INFO", "Console logging disabled", "", "", <<>>, 0)>>,
                       handlers', 0)
    /\ lastToggle' = IF enabled THEN "on" ELSE "off"

\* line 159: console_output(CONSOLE_OUTPUT)
ModuleConsoleOutput ==
    /\ pc = "console"
    /\ console_output(CONSOLE_OUTPUT)
    /\ pc' = "main"
    /\ UNCHANGED <<pairs, logWritable, CONSOLE_OUTPUT, ARGS, idx, calls, outcomes,
                   child, outPipe, errPipe, budget, orphans, start_time, toggles>>

\* a further console_output call by the importing program, before main()
ConsoleToggle ==
    /\ pc = "console"
    /\ toggles > 0
    /\ \E enabled \in BOOLEAN : console_output(enabled)
    /\ toggles' = toggles - 1
    /\ UNCHANGED <<pairs, logWritable, CONSOLE_OUTPUT, pc, ARGS, idx, calls,
                   outcomes, child, outPipe, errPipe, budget, orphans, start_time>>

---------------------------------------------------------------------------
(* main(), lines 142-157 *)

\* line 149: start_time = time.time(); this reading is the origin of Clock
MainStart ==
    /\ pc = "main"
    /\ start_time' = 0
    /\ pc' = "loop"
    /\ UNCHANGED <<pairs, logWritable, CONSOLE_OUTPUT, handlers, fileOpen, log,
                   ARGS, idx, calls, outcomes, child, outPipe, errPipe, budget,
                   orphans, toggles, lastToggle>>

\* mutant of MainIter: the home pair gets a fresh list, ARGS is left alone
MainIter_IsolatedArgs ==
    /\ pc = "loop"
    /\ idx < Len(pairs)
    /\ LET source == pairs[idx + 1]
           destination == Destination(source)
       IN /\ ARGS' = ARGS
          /\ Log(<<Msg("INFO", "Syncing", source, destination, <<>>, 0)>>, 0)
          /\ calls' = Append(calls, [source |-> source, destination |-> destination,
                                     args |-> IF source = HOME_DIR
                                              THEN ARGS \o HOME_ARGS ELSE ARGS])
    /\ idx' = idx + 1
    /\ pc' = "sync"
    /\ UNCHANGED <<pairs, logWritable, CONSOLE_OUTPUT, handlers, outcomes, child,
                   outPipe, errPipe, budget, orphans, start_time, toggles, lastToggle>>

\* lines 150-154, up to the call of rclone_sync(source, destination, args=ARGS)
MainIter ==
    /\ pc = "loop"
    /\ idx < Len(pairs)
    /\ LET source == pairs[idx + 1]
           destination == Destination(source)
       IN /\ ARGS' = IF source = HOME_DIR THEN ARGS \o HOME_ARGS ELSE ARGS
          /\ Log(<<Msg("INFO", "Syncing", source, destination, <<>>, 0)>>, 0)
          /\ calls' = Append(calls, [source |-> source, destination |-> destination,
                                     args |-> ARGS'])
    /\ idx' = idx + 1
    /\ pc' = "sync"
    /\ UNCHANGED <<pairs, logWritable, CONSOLE_OUTPUT, handlers, outcomes, child,
                   outPipe, errPipe, budget, orphans, start_time, toggles, lastToggle>>

\* the value "{elapsed_time:.2f}" prints, in hundredths of a minute, for a
\* difference of s whole seconds: s/60 rounded to two decimals (5s/3 has no ties)
Fmt2f(s) ==
    LET q == (5 * s) \div 3
        r == (5 * s) % 3
    IN IF r = 2 THEN q + 1 ELSE q

\* lines 155-157: end_time = time.time(), any reading of Clock
MainEnd ==
    /\ pc = "loop"
    /\ idx = Len(pairs)
    /\ \E end_time \in Clock :
          Log(<<Msg("INFO", "Backup process completed", "", "", <<>>,
                    Fmt2f(end_time - start_time))>>, 0)
    /\ pc' = "done"
    /\ UNCHANGED <<pairs, logWritable, CONSOLE_OUTPUT, handlers, ARGS, idx, calls,
                   outcomes, child, outPipe, errPipe, budget, orphans, start_time,
                   toggles, lastToggle>>

---------------------------------------------------------------------------
(* rclone_sync(), lines 100-140 *)

Call == calls[Len(calls)]

\* lines 113-115
Command(c) == <<"rclone", "sync", c.source, c.destination>> \o c.args

\* lines 113-117
RcloneSyncEntry ==
    /\ pc = "sync"
    /\ Log(<<Msg("INFO", "Running command", "", "", Command(Call), 0)>>, Len(calls))
    /\ pc' = "popen"
    /\ UNCHANGED <<pairs, logWritable, CONSOLE_OUTPUT, handlers, ARGS, idx, calls,
                   outcomes, child, outPipe, errPipe, budget, orphans, start_time,
                   toggles, lastToggle>>

\* mutant of AfterExceptException: the handler re-raises and main() dies
AfterExceptException_Reraise == "crashed"

\* where control goes once the handler of lines 139-140 has logged: the
\* exception is not re-raised, rclone_sync returns and main's loop goes on
AfterExceptException == "loop"

\* mutant of ExceptException: the record leaves the exception out
ExceptException_NoText(text) ==
    /\ Log(<<Msg("ERROR", "An error occurred", "", "", <<>>, 0)>>, Len(calls))
    /\ pc' = AfterExceptException

\* lines 139-140, entered with the exception text; a child the try block had
\* launched is neither waited for nor killed
ExceptException(text) ==
    /\ Log(<<Msg("ERROR", "An error occurred", "", "", <<text>>, 0)>>, Len(calls))
    /\ pc' = AfterExceptException

\* line 119: subprocess.Popen starts the child
PopenStarts ==
    /\ pc = "popen"
    /\ child' = [state |-> "running", want |-> "idle", rc |-> 0]
    /\ outPipe' = <<>>
    /\ errPipe' = <<>>
    /\ pc' = "read_stdout"
    /\ UNCHANGED <<pairs, logWritable, CONSOLE_OUTPUT, handlers, fileOpen, log,
                   ARGS, idx, calls, outcomes, budget, orphans, start_time,
                   toggles, lastToggle>>

\* line 119: subprocess.Popen raises (no executable, no permission)
PopenRaises ==
    /\ pc = "popen"
    /\ \E text \in LaunchErrors :
          /\ ExceptException(text)
          /\ outcomes' = Append(outcomes, [kind |-> "launch_error", rc |-> 0, text |-> text])
    /\ UNCHANGED <<pairs, logWritable, CONSOLE_OUTPUT, handlers, ARGS, idx, calls,
                   child, outPipe, errPipe, budget, orphans, start_time, toggles,
                   lastToggle>>

\* readline() raised while the child may still run: the handler logs, the
\* call returns, the Popen object is dropped with the child unreaped
ReadRaises ==
    /\ ExceptException(DecodeError)
    /\ outcomes' = Append(outcomes, [kind |-> "read_error", rc |-> 0, text |-> DecodeError])
    /\ orphans' = IF child.state = "running" THEN orphans + 1 ELSE orphans
    /\ child' = NoChild
    /\ outPipe' = <<>>
    /\ errPipe' = <<>>

\* mutant of ReadStdout: a multiplexed reader, which takes a stderr line
\* whenever stdout has none
ReadStdout_Multiplexed ==
    /\ pc = "read_stdout"
    /\ IF outPipe # <<>>
       THEN IF Decodable(Head(outPipe))
            THEN /\ Log(<<Msg("DEBUG", "output", "", "", <<Strip(Head(outPipe))>>, 0)>>,
                        Len(calls))
                 /\ outPipe' = Tail(outPipe)
                 /\ UNCHANGED <<pc, outcomes, child, errPipe, orphans>>
            ELSE ReadRaises
       ELSE IF errPipe # <<>>
            THEN IF Decodable(Head(errPipe))
                 THEN /\ Log(<<Msg("DEBUG", "output", "", "", <<Strip(Head(errPipe))>>, 0)>>,
                             Len(calls))
                      /\ errPipe' = Tail(errPipe)
                      /\ UNCHANGED <<pc, outcomes, child, outPipe, orphans>>
                 ELSE ReadRaises
            ELSE /\ child.state = "exited"
                 /\ pc' = "read_stderr"
                 /\ UNCHANGED <<log, fileOpen, outcomes, child, outPipe, errPipe, orphans>>
    /\ UNCHANGED <<pairs, logWritable, CONSOLE_OUTPUT, handlers, ARGS, idx, calls,
                   budget, start_time, toggles, lastToggle>>

\* lines 122-123: one readline() on process.stdout
ReadStdout ==
    /\ pc = "read_stdout"
    /\ IF outPipe # <<>>
       THEN IF Decodable(Head(outPipe))
            THEN /\ Log(<<Msg("DEBUG", "output", "", "", <<Strip(Head(outPipe))>>, 0)>>,
                        Len(calls))
                 /\ outPipe' = Tail(outPipe)
                 /\ UNCHANGED <<pc, outcomes, child, errPipe, orphans>>
            ELSE ReadRaises
       ELSE \* "" is returned only at end of file: the child has closed stdout
            /\ child.state = "exited"
            /\ pc' = "read_stderr"
            /\ UNCHANGED <<log, fileOpen, outcomes, child, outPipe, errPipe, orphans>>
    /\ UNCHANGED <<pairs, logWritable, CONSOLE_OUTPUT, handlers, ARGS, idx, calls,
                   budget, start_time, toggles, lastToggle>>

\* lines 124-125: one readline() on process.stderr
ReadStderr ==
    /\ pc = "read_stderr"
    /\ IF errPipe # <<>>
       THEN IF Decodable(Head(errPipe))
            THEN /\ Log(<<Msg("DEBUG", "output", "", "", <<Strip(Head(errPipe))>>, 0)>>,
                        Len(calls))
                 /\ errPipe' = Tail(errPipe)
                 /\ UNCHANGED <<pc, outcomes, child, outPipe, orphans>>
            ELSE ReadRaises
       ELSE /\ child.state = "exited"
            /\ pc' = "wait"
            /\ UNCHANGED <<log, fileOpen, outcomes, child, outPipe, errPipe, orphans>>
    /\ UNCHANGED <<pairs, logWritable, CONSOLE_OUTPUT, handlers, ARGS, idx, calls,
                   budget, start_time, toggles, lastToggle>>

\* mutant of IsFailure: only a negative status (death by signal) is a failure
IsFailure_NegativeOnly(return_code) == return_code < 0

\* line 131
IsFailure(return_code) == return_code # 0

IsCurrentDebug(r) == r.level = "DEBUG" /\ r.call = Len(calls)

\* mutant of CalledProcessError: the lines read from the child are attached
CalledProcessError_WithCapture(return_code, command) ==
    LET d == SelectSeq(log, IsCurrentDebug)
        captured == [i \in 1..Len(d) |-> d[i].detail[1]]
    IN [returncode |-> return_code, cmd |-> command,
        stdout |-> captured, stderr |-> captured]

\* line 132: subprocess.CalledProcessError(return_code, command); output and
\* stderr are not passed and default to None
CalledProcessError(return_code, command) ==
    [returncode |-> return_code, cmd |-> command, stdout |-> None, stderr |-> None]

\* lines 127-138: close the pipes, wait, classify, log
WaitAndReport ==
    /\ pc = "wait"
    /\ LET return_code == child.rc
           e == CalledProcessError(return_code, Command(Call))
       IN IF IsFailure(return_code)
          THEN Log(<<Msg("ERROR", "Error syncing", Call.source, Call.destination,
                         e.cmd, e.returncode),
                     Msg("ERROR", "stdout:", "", "", e.stdout, 0),
                     Msg("ERROR", "stderr:", "", "", e.stderr, 0)>>, Len(calls))
          ELSE Log(<<Msg("INFO", "Sync completed", Call.source, Call.destination,
                         <<>>, 0)>>, Len(calls))
    /\ outcomes' = Append(outcomes, [kind |-> "exit", rc |-> child.rc, text |-> ""])
    /\ child' = NoChild
    /\ pc' = "loop"
    /\ UNCHANGED <<pairs, logWritable, CONSOLE_OUTPUT, handlers, ARGS, idx, calls,
                   outPipe, errPipe, budget, orphans, start_time, toggles, lastToggle>>

---------------------------------------------------------------------------
(* The child process (rclone) and the kernel's pipes *)

Pipe(stream) == IF stream = "out" THEN outPipe ELSE errPipe

PutLine(stream, line) ==
    /\ outPipe' = IF stream = "out" THEN Append(outPipe, line) ELSE outPipe
    /\ errPipe' = IF stream = "err" THEN Append(errPipe, line) ELSE errPipe
    /\ budget' = budget - 1

\* the child calls write(2) on one of its streams; with the pipe full the
\* call blocks (want records the stream it is blocked on)
ChildWrite ==
    /\ child.state = "running"
    /\ child.want = "idle"
    /\ budget > 0
    /\ \E stream \in {"out", "err"} :
          IF Len(Pipe(stream)) < PipeCap
          THEN /\ \E line \in Lines : PutLine(stream, line)
               /\ UNCHANGED child
          ELSE /\ child' = [child EXCEPT !.want = stream]
               /\ UNCHANGED <<outPipe, errPipe, budget>>
    /\ UNCHANGED <<pairs, logWritable, CONSOLE_OUTPUT, pc, handlers, fileOpen, log,
                   ARGS, idx, calls, outcomes, orphans, start_time, toggles, lastToggle>>

\* a blocked write completes once the reader has made room
ChildUnblock ==
    /\ child.state = "running"
    /\ child.want # "idle"
    /\ Len(Pipe(child.want)) < PipeCap
    /\ \E line \in Lines : PutLine(child.want, line)
    /\ child' = [child EXCEPT !.want = "idle"]
    /\ UNCHANGED <<pairs, logWritable, CONSOLE_OUTPUT, pc, handlers, fileOpen, log,
                   ARGS, idx, calls, outcomes, orphans, start_time, toggles, lastToggle>>

\* the child exits, which closes its ends of both pipes
ChildExit ==
    /\ child.state = "running"
    /\ child.want = "idle"
    /\ \E rc \in ExitCodes : child' = [child EXCEPT !.state = "exited", !.rc = rc]
    /\ UNCHANGED <<pairs, logWritable, CONSOLE_OUTPUT, pc, handlers, fileOpen, log,
                   ARGS, idx, calls, outcomes, outPipe, errPipe, budget, orphans,
                   start_time, toggles, lastToggle>>

\* a child nobody waits for ends by itself
OrphanExit ==
    /\ orphans > 0
    /\ orphans' = orphans - 1
    /\ UNCHANGED <<pairs, logWritable, CONSOLE_OUTPUT, pc, handlers, fileOpen, log,
                   ARGS, idx, calls, outcomes, child, outPipe, errPipe, budget,
                   start_time, toggles, lastToggle>>

---------------------------------------------------------------------------

Next ==
    \/ setup_logging
    \/ ModuleConsoleOutput
    \/ MainStart
    \/ MainIter
    \/ MainEnd
    \/ RcloneSyncEntry
    \/ PopenStarts
    \/ PopenRaises
    \/ ReadStdout
    \/ ReadStderr
    \/ WaitAndReport
    \/ ChildWrite
    \/ ChildUnblock
    \/ ChildExit
    \/ OrphanExit

Spec == Init /\ [][Next]_vars

\* the program as imported by a caller that toggles the console before main():
\* at most one configured pair, so that the toggle histories stay enumerable
InitConsole ==
    /\ pairs \in {c \in Configs : Len(c) <= 1}
    /\ logWritable \in BOOLEAN
    /\ CONSOLE_OUTPUT \in BOOLEAN
    /\ pc = "setup"
    /\ handlers = <<>>
    /\ fileOpen = FALSE
    /\ log = <<>>
    /\ ARGS = BaseArgs
    /\ idx = 0
    /\ calls = <<>>
    /\ outcomes = <<>>
    /\ child = NoChild
    /\ outPipe = <<>>
    /\ errPipe = <<>>
    /\ budget = MaxLines
    /\ orphans = 0
    /\ start_time = 0
    /\ toggles = MaxToggles
    /\ lastToggle = "unset"

NextConsole == Next \/ ConsoleToggle

SpecConsole == InitConsole /\ [][NextConsole]_vars

---------------------------------------------------------------------------
(* Vocabulary of the properties *)

\* the records logged during the k-th call of rclone_sync
Recs(k) == {i \in DOMAIN log : log[i].call = k}

Finished == 1..Len(outcomes)

InMain == {"setup", "console", "main", "loop", "done"}

InSync == {"sync", "popen", "read_stdout", "read_stderr", "wait"}

IsConsole(h) == h = "console"

ConsoleCopies(r) == Len(SelectSeq(r.to, IsConsole))

Notices == {"Console logging enabled", "Console logging disabled"}

Alive == (IF child.state = "running" THEN 1 ELSE 0) + orphans

IsPrefix(s, t) == Len(s) <= Len(t) /\ SubSeq(t, 1, Len(s)) = s

HomeSeenBy(k) == \E j \in 1..k : pairs[j] = HOME_DIR

DownloadsHomeWorking ==
    <<"/home/siskourso/Downloads/", HOME_DIR, "/home/siskourso/Working/">>

---------------------------------------------------------------------------
(* C1: main() calls rclone_sync exactly once per configured pair, in       *)
(* configuration order, whatever the outcome of each pair (exit 0,         *)
(* non-zero exit, exception at launch): the calls made so far are the      *)
(* first idx pairs in order, control is back in main whenever no call is   *)
(* in progress, and when main has ended every pair has been attempted and  *)
(* has returned.                                                           *)
C1_OncePerPairInOrder ==
    /\ pc \in InMain \cup InSync
    /\ Len(calls) = idx
    /\ idx <= Len(pairs)
    /\ \A k \in 1..Len(calls) :
          /\ calls[k].source = pairs[k]
          /\ calls[k].destination = Destination(pairs[k])
    /\ Len(outcomes) = (IF pc \in InSync THEN idx - 1 ELSE idx)
    /\ pc = "done" => Len(calls) = Len(pairs) /\ Len(outcomes) = Len(pairs)

\* a finished run of three pairs: launch failure, then exit 1, then exit 0
C1_Witness ==
    /\ pc = "done"
    /\ Len(pairs) = 3
    /\ Len(outcomes) = 3
    /\ outcomes[1].kind = "launch_error"
    /\ outcomes[2].kind = "exit" /\ outcomes[2].rc = 1
    /\ outcomes[3].kind = "exit" /\ outcomes[3].rc = 0

(* C2: at most one child process of the run is alive in any reachable      *)
(* state, on every path through rclone_sync.                               *)
C2_AtMostOneChildAlive == Alive <= 1

C4_UnwritableLogIsFatal ==
    ~logWritable => (Len(calls) = 0 /\ child.state = "none" /\ orphans = 0)

(* C5: after any sequence of console_output calls following setup_logging  *)
(* the console handler is attached at most once, and exactly when the last *)
(* call was console_output(True); every record logged from a call on,      *)
(* the call's own notice included, has exactly one console copy after      *)
(* console_output(True) and none after console_output(False).              *)
C5_ConsoleAttachedAtMostOnce ==
    /\ Len(SelectSeq(handlers, IsConsole)) <= 1
    /\ lastToggle = "on" => \E i \in DOMAIN handlers : handlers[i] = "console"
    /\ lastToggle = "off" => \A i \in DOMAIN handlers : handlers[i] # "console"
    /\ \A i \in DOMAIN log :
          LET notices == {j \in 1..i : log[j].kind \in Notices}
          IN notices # {} =>
                LET last == CHOOSE j \in notices : \A n \in notices : n <= j
                IN ConsoleCopies(log[i]) =
                      (IF log[last].kind = "Console logging enabled" THEN 1 ELSE 0)

\* console_output(False), console_output(True), console_output(True), then a
\* record of main()
C5_Witness ==
    \E i, j, k, m \in DOMAIN log :
        /\ i < j /\ j < k /\ k < m
        /\ log[i].kind = "Console logging disabled"
        /\ log[j].kind = "Console logging enabled"
        /\ log[k].kind = "Console logging enabled"
        /\ \A n \in j..k : log[n].kind \in Notices
        /\ log[m].kind = "Syncing"

(* C6: the argument list is shared and mutated in place: a call receives   *)
(* the base arguments alone when no home pair has been reached, and the    *)
(* base arguments followed by the home exclusions from the home pair on    *)
(* (for [A, HOME, B]: A base, HOME and B base + home); the shared list     *)
(* never shrinks, so every list a call received is a prefix of it.         *)
C6_SharedArgsGrowOnly ==
    /\ \A k \in 1..Len(calls) :
          /\ calls[k].args = (IF HomeSeenBy(k) THEN BaseArgs \o HOME_ARGS ELSE BaseArgs)
          /\ IsPrefix(calls[k].args, ARGS)
    /\ IsPrefix(BaseArgs, ARGS)

\* the pairs [Downloads, HOME, Working], all three called
C6_Witness ==
    /\ pairs = DownloadsHomeWorking
    /\ Len(calls) = 3
    /\ calls[1].args = BaseArgs
    /\ calls[2].args = BaseArgs \o HOME_ARGS
    /\ calls[3].args = BaseArgs \o HOME_ARGS

(* C7: an exception raised by the launch of the child is caught inside     *)
(* rclone_sync: the call logs an ERROR record with the exception text, no  *)
(* "Sync completed" record and launches no child, and control returns to   *)
(* main, whose loop goes on to the next pair.                              *)
C7_LaunchErrorCaught ==
    /\ \A k \in Finished :
          outcomes[k].kind = "launch_error" =>
              /\ \E i \in Recs(k) :
                    /\ log[i].level = "ERROR"
                    /\ log[i].kind = "An error occurred"
                    /\ log[i].detail = <<outcomes[k].text>>
              /\ \A i \in Recs(k) : log[i].kind # "Sync completed" /\ log[i].level # "DEBUG"
              /\ (k = Len(calls) /\ pc \notin InSync) => pc \in {"loop", "done"}
              /\ (pc = "done" /\ k < Len(pairs)) => Len(calls) > k
    /\ pc = "popen" => child.state = "none"

\* the first pair's launch failed and the second pair was attempted
C7_Witness ==
    /\ Len(outcomes) >= 1
    /\ outcomes[1].kind = "launch_error"
    /\ Len(calls) >= 2
    /\ pc = "read_stdout"

(* C8: a finished run of main() has logged "Backup process completed"      *)
(* exactly once, as its last record, and never before the run finished;    *)
(* the value is a non-negative number of minutes.                          *)
C8_ElapsedOnceLastNonNegative ==
    LET E == {i \in DOMAIN log : log[i].kind = "Backup process completed"}
    IN /\ pc # "done" => E = {}
       /\ pc = "done" => E = {Len(log)} /\ log[Len(log)].num >= 0

\* the part of C8 about the record's place: once, last, only in a finished run
C8_ElapsedOnceLast ==
    LET E == {i \in DOMAIN log : log[i].kind = "Backup process completed"}
    IN /\ pc # "done" => E = {}
       /\ pc = "done" => E = {Len(log)}

(* C9: the parent reads stdout to end-of-file before it reads stderr, so   *)
(* a child blocked on a full stderr pipe with stdout still open, and a     *)
(* parent waiting on the empty stdout pipe, is a reachable state that no   *)
(* step leaves: the call never returns and no later pair is attempted.     *)
Deadlocked ==
    /\ pc = "read_stdout"
    /\ outPipe = <<>>
    /\ child.state = "running"
    /\ child.want = "err"
    /\ Len(errPipe) >= PipeCap

=============================================================================
